---- MODULE Spec2Model ----
(***************************************************************************)
(* Model of the multi-device upgrade engine of                            *)
(* packages/frontend/xaospy/scripts/code_upgrade/run.py:                  *)
(* the coordinator execute_code_upgrade, the per-device workflow          *)
(* upgrade_device with handle_upgrade_error, the progress emitter         *)
(* send_progress / send_step_progress, and the version analyzer.          *)
(*                                                                         *)
(* Strings that the code inspects character by character (version         *)
(* strings) are sequences of one-character strings.  Time is kept per     *)
(* workflow as the seconds it has spent waiting for replies of its        *)
(* device, a lower bound of the time the workflow has been running.       *)
(***************************************************************************)
EXTENDS Integers, Sequences, FiniteSets, TLC

\* ---------------------------------------------------------------- bounds
MaxHosts == 3

\* ------------------------------------------------------ program constants
STEPS_PER_DEVICE == 6
DEFAULT_MAX_WORKERS == 5
DEFAULT_DEVICE_TIMEOUT == 1800
DEFAULT_RETRY_ATTEMPTS == 3
RPC_TIMEOUT == 720

\* ------------------------------------------------------------ small helpers
Range(s) == {s[k] : k \in 1..Len(s)}

\* ================================================================ versions
Digits == {"0", "1", "2", "3", "4", "5", "6", "7", "8", "9"}

DigitVal(c) ==
    CASE c = "0" -> 0 [] c = "1" -> 1 [] c = "2" -> 2 [] c = "3" -> 3
      [] c = "4" -> 4 [] c = "5" -> 5 [] c = "6" -> 6 [] c = "7" -> 7
      [] c = "8" -> 8 [] c = "9" -> 9

\* number of consecutive digits of s starting at position p (regex \d+, greedy)
RECURSIVE DigitRun(_, _)
DigitRun(s, p) ==
    IF p <= Len(s) /\ s[p] \in Digits THEN 1 + DigitRun(s, p + 1) ELSE 0

\* int(s[p .. p+n-1])
RECURSIVE ToInt(_, _, _)
ToInt(s, p, n) ==
    IF n = 0 THEN 0 ELSE ToInt(s, p, n - 1) * 10 + DigitVal(s[p + n - 1])

CharAt(s, p) == IF p >= 1 /\ p <= Len(s) THEN s[p] ELSE "$"

\* str.replace("Junos: ", "")
JunosPrefix == <<"J", "u", "n", "o", "s", ":", " ">>

HasPrefixAt(s, p, pre) ==
    /\ p + Len(pre) - 1 <= Len(s)
    /\ \A k \in 1..Len(pre) : s[p + k - 1] = pre[k]

RECURSIVE RemoveAll(_, _, _)
RemoveAll(s, p, pre) ==
    IF p > Len(s) THEN <<>>
    ELSE IF HasPrefixAt(s, p, pre) THEN RemoveAll(s, p + Len(pre), pre)
    ELSE <<s[p]>> \o RemoveAll(s, p + 1, pre)

\* str.strip()
RECURSIVE LStrip(_)
LStrip(s) == IF Len(s) > 0 /\ Head(s) = " " THEN LStrip(Tail(s)) ELSE s

RECURSIVE RStrip(_)
RStrip(s) ==
    IF Len(s) > 0 /\ s[Len(s)] = " " THEN RStrip(SubSeq(s, 1, Len(s) - 1)) ELSE s

Strip(s) == RStrip(LStrip(s))

\* re.findall(r'\d+', s): the numeric values of the digit runs, left to right
RECURSIVE FindAllNumbers(_, _)
FindAllNumbers(s, p) ==
    IF p > Len(s) THEN <<>>
    ELSE IF s[p] \in Digits
         THEN <<ToInt(s, p, DigitRun(s, p))>> \o FindAllNumbers(s, p + DigitRun(s, p))
         ELSE FindAllNumbers(s, p + 1)

ZeroVersion == <<0, 0, 0, 0, 0>>

FallbackTuple(numbers) ==
    IF Len(numbers) >= 3
    THEN [k \in 1..5 |-> IF k <= Len(numbers) THEN numbers[k] ELSE 0]
    ELSE ZeroVersion

\* re.match(r'(\d+)\.(\d+)R(\d+)(?:-S(\d+))?(?:\.(\d+))?(?:-\w+)?', clean),
\* group by group from the left; every \d+ is greedy and the groups after
\* the release number are optional, so the match never backtracks
NoMatch == [matched |-> FALSE, groups |-> ZeroVersion]

\* (?:-S(\d+))? at position p: the group's value (0 when absent: "int(service)
\* if service else 0") and the position after it
ServiceGroup(s, p) ==
    LET n == DigitRun(s, p + 2)
    IN  IF CharAt(s, p) = "-" /\ CharAt(s, p + 1) = "S" /\ n >= 1
        THEN [val |-> ToInt(s, p + 2, n), next |-> p + 2 + n]
        ELSE [val |-> 0, next |-> p]

\* (?:\.(\d+))? at position p
PatchGroup(s, p) ==
    LET n == DigitRun(s, p + 1)
    IN  IF CharAt(s, p) = "." /\ n >= 1
        THEN [val |-> ToInt(s, p + 1, n), next |-> p + 1 + n]
        ELSE [val |-> 0, next |-> p]

MatchOptional(s, major, minor, release, p) ==
    LET service == ServiceGroup(s, p)
    IN  [matched |-> TRUE,
         groups |-> <<major, minor, release, service.val,
                      PatchGroup(s, service.next).val>>]

MatchRelease(s, major, minor, p) ==
    LET n == DigitRun(s, p)
    IN  IF n = 0 THEN NoMatch
        ELSE MatchOptional(s, major, minor, ToInt(s, p, n), p + n)

MatchMinor(s, major, p) ==
    LET n == DigitRun(s, p)
    IN  IF n = 0 \/ CharAt(s, p + n) # "R" THEN NoMatch
        ELSE MatchRelease(s, major, ToInt(s, p, n), p + n + 1)

PrimaryMatch(s) ==
    LET n == DigitRun(s, 1)
    IN  IF n = 0 \/ CharAt(s, n + 1) # "." THEN NoMatch
        ELSE MatchMinor(s, ToInt(s, 1, n), n + 2)

parse_junos_version(version_string) ==
    IF Len(version_string) = 0 THEN ZeroVersion
    ELSE LET clean == Strip(RemoveAll(version_string, 1, JunosPrefix))
             m == PrimaryMatch(clean)
         IN  IF m.matched THEN m.groups
             ELSE FallbackTuple(FindAllNumbers(clean, 1))

\* Python tuple ordering: a < b
RECURSIVE TupleLess(_, _, _)
TupleLess(a, b, k) ==
    IF k > Len(a) \/ k > Len(b) THEN Len(a) < Len(b)
    ELSE IF a[k] # b[k] THEN a[k] < b[k]
    ELSE TupleLess(a, b, k + 1)

\* a mutant of compare_junos_versions: only the major numbers are compared
compare_major_only(current, target) ==
    LET current_parsed == parse_junos_version(current)
        target_parsed == parse_junos_version(target)
    IN  IF current_parsed[1] = target_parsed[1] THEN "MAINTAIN"
        ELSE IF current_parsed[1] < target_parsed[1] THEN "UPGRADE"
        ELSE "DOWNGRADE"

compare_junos_versions(current, target) ==
    LET current_parsed == parse_junos_version(current)
        target_parsed == parse_junos_version(target)
    IN  IF current_parsed = target_parsed THEN "MAINTAIN"
        ELSE IF TupleLess(current_parsed, target_parsed, 1) THEN "UPGRADE"
        ELSE "DOWNGRADE"

Abs(x) == IF x < 0 THEN 0 - x ELSE x

\* the warnings of analyze_version_compatibility, as tags
analyze_version_compatibility(current, target) ==
    LET action == compare_junos_versions(current, target)
        cp == parse_junos_version(current)
        tp == parse_junos_version(target)
        w1 == IF cp[1] # tp[1]
              THEN IF action = "UPGRADE" THEN <<"major_upgrade">> ELSE <<"major_downgrade">>
              ELSE <<>>
        w2 == IF Abs(cp[2] - tp[2]) > 2 THEN <<"large_gap">> ELSE <<>>
    IN  [action |-> action, warnings |-> w1 \o w2]


\* ========================================================= run parameters
\* host names by position in --hostname (validate_command_arguments keeps order)
HostPool == <<"r1", "r2", "r3", "r4", "r5", "r6", "r7", "r8">>

\* versions a device may report in dev.facts["version"]; "Unknown" is what
\* dev.facts.get("version", "Unknown") gives when the facts hold no version
DeviceVersions == {"20.4R3-S1.8", "21.4R1.12", "22.1R1.1", "Unknown"}

\* --target_version of the run
target_version == "21.4R1.12"

\* the characters of the version strings of a run
Chars(v) ==
    CASE v = "20.4R3-S1.8" -> <<"2", "0", ".", "4", "R", "3", "-", "S", "1", ".", "8">>
      [] v = "21.4R1.12" -> <<"2", "1", ".", "4", "R", "1", ".", "1", "2">>
      [] v = "22.1R1.1" -> <<"2", "2", ".", "1", "R", "1", ".", "1">>
      [] v = "Junos: 21.4R1.12" -> <<"J", "u", "n", "o", "s", ":", " ",
                                     "2", "1", ".", "4", "R", "1", ".", "1", "2">>
      [] v = "21.4R1-S1.6-EVO" -> <<"2", "1", ".", "4", "R", "1", "-", "S", "1", ".", "6",
                                    "-", "E", "V", "O">>
      [] v = "21.4R1" -> <<"2", "1", ".", "4", "R", "1">>
      [] v = "21.4.1" -> <<"2", "1", ".", "4", ".", "1">>
      [] v = "21.4" -> <<"2", "1", ".", "4">>
      [] v = "9.6R2.1.3.7.5" -> <<"9", ".", "6", "R", "2", ".", "1", ".", "3", ".", "7",
                                  ".", "5">>
      [] v = "9.6.2.1.3.7" -> <<"9", ".", "6", ".", "2", ".", "1", ".", "3", ".", "7">>
      [] v = "garbage" -> <<"g", "a", "r", "b", "a", "g", "e">>
      [] v = "Unknown" -> <<"U", "n", "k", "n", "o", "w", "n">>
      [] v = "" -> <<>>
      [] OTHER -> <<>>

\* analyze_version_compatibility(initial_version, target_version) for every
\* version a device of the run may report
VersionAnalysis ==
    [v \in DeviceVersions |->
        analyze_version_compatibility(Chars(v), Chars(target_version))]

\* seconds a device RPC may take: at once, or just within dev.timeout
RpcDurations == {0, RPC_TIMEOUT}

\* devices that answer every RPC at once
PromptDurations == {0}

\* ============================================================ arguments
\* the characters of the --hostname tokens and --image_filename values of a run
ArgChars(v) ==
    CASE v = "r1" -> <<"r", "1">> [] v = "r2" -> <<"r", "2">>
      [] v = "r3" -> <<"r", "3">> [] v = "r4" -> <<"r", "4">>
      [] v = "r5" -> <<"r", "5">> [] v = "r6" -> <<"r", "6">>
      [] v = "r7" -> <<"r", "7">> [] v = "r8" -> <<"r", "8">>
      [] v = "bad host!" -> <<"b", "a", "d", " ", "h", "o", "s", "t", "!">>
      [] v = "j21.tgz" -> <<"j", "2", "1", ".", "t", "g", "z">>
      [] v = "J21.TGZ" -> <<"J", "2", "1", ".", "T", "G", "Z">>
      [] v = "j21.iso" -> <<"j", "2", "1", ".", "i", "s", "o">>
      [] v = "j 21.tgz" -> <<"j", " ", "2", "1", ".", "t", "g", "z">>
      [] v = "admin" -> <<"a", "d", "m", "i", "n">>
      [] v = " " -> <<" ">>
      [] OTHER -> <<>>

Letters == {"a", "b", "d", "g", "h", "i", "j", "m", "n", "o", "r", "s", "t", "z",
            "G", "J", "T", "Z"}

\* str.lower() on one character
Lower(c) == CASE c = "G" -> "g" [] c = "J" -> "j" [] c = "T" -> "t" [] c = "Z" -> "z"
              [] OTHER -> c

\* hostname_pattern ^[a-zA-Z0-9\-\.]+$ ; every string ip_pattern matches is
\* matched by it too, so it decides "ip_pattern.match or hostname_pattern.match"
hostname_pattern(s) ==
    Len(s) >= 1 /\ \A k \in 1..Len(s) : s[k] \in Letters \cup Digits \cup {"-", "."}

\* ^[a-zA-Z0-9\-_\.]+$
filename_pattern(s) ==
    Len(s) >= 1 /\ \A k \in 1..Len(s) : s[k] \in Letters \cup Digits \cup {"-", "_", "."}

ImageExtensions == {<<".", "t", "g", "z">>, <<".", "t", "a", "r", ".", "g", "z">>,
                    <<".", "p", "k", "g">>, <<".", "t", "a", "r">>}

\* s.lower().endswith(ext)
LowerEndsWith(s, ext) ==
    /\ Len(s) >= Len(ext)
    /\ \A k \in 1..Len(ext) : Lower(s[Len(s) - Len(ext) + k]) = ext[k]

NonEmptyToken(h) == Len(Strip(ArgChars(h))) > 0

\* [host.strip() for host in args.hostname.split(",") if host.strip()]
raw_hosts(a) == SelectSeq(a.hostname, NonEmptyToken)

HostAccepted(h) == Len(ArgChars(h)) <= 253 /\ hostname_pattern(ArgChars(h))

\* the host_ips list validate_command_arguments has built when it is done
accepted_hosts(a) == SelectSeq(raw_hosts(a), HostAccepted)

\* a mutant of validation_errors: nothing is ever rejected
no_validation_errors(a) == {}

\* validation_errors of validate_command_arguments, as tags
validation_errors(a) ==
    (IF Len(a.hostname) = 0 THEN {"hostname_required"}
     ELSE IF Len(raw_hosts(a)) = 0 THEN {"no_hostname"}
     ELSE IF Len(accepted_hosts(a)) < Len(raw_hosts(a)) THEN {"hostname_format"}
     ELSE {})
    \cup (IF Len(Strip(ArgChars(a.username))) = 0 THEN {"username_required"}
          ELSE IF Len(ArgChars(a.username)) > 128 THEN {"username_long"} ELSE {})
    \cup (IF a.password = "" THEN {"password_required"} ELSE {})
    \cup (IF a.image_filename = "" THEN {"image_required"}
          ELSE IF ~filename_pattern(ArgChars(a.image_filename)) THEN {"image_format"}
          ELSE IF ~\E ext \in ImageExtensions : LowerEndsWith(ArgChars(a.image_filename), ext)
               THEN {"image_extension"}
          ELSE {})
    \cup (IF a.target_version = "" THEN {"target_version_required"} ELSE {})

\* what validate_command_arguments returns; <<>> stands for "raises ValueError"
validate_command_arguments(a) ==
    IF validation_errors(a) = {} THEN accepted_hosts(a) ELSE <<>>

\* command lines of a run: n distinct hosts and every other argument well formed
GoodArgs(n, allow, dry) ==
    [hostname |-> [k \in 1..n |-> HostPool[k]],
     username |-> "admin",
     password |-> "secret",
     image_filename |-> "j21.tgz",
     target_version |-> target_version,
     allow_downgrade |-> allow,
     dry_run |-> dry]

\* command lines that differ from a good one in one argument; the list
\* that names r1 twice is accepted as it is (no host is dropped as a repeat)
VariedArgs ==
    LET g == GoodArgs(1, FALSE, FALSE)
    IN  {[g EXCEPT !.hostname = h] :
            h \in {<<"r1", "bad host!">>, <<"">>, <<"", "r1">>, <<"r1", "r1">>}}
        \cup {[g EXCEPT !.username = u] : u \in {"", " "}}
        \cup {[g EXCEPT !.password = ""]}
        \cup {[g EXCEPT !.image_filename = f] : f \in {"", "j21.iso", "j 21.tgz", "J21.TGZ"}}
        \cup {[g EXCEPT !.target_version = ""]}
        \cup {[g EXCEPT !.hostname = <<"bad host!">>, !.dry_run = TRUE]}

ArgSets(maxhosts) ==
    {GoodArgs(n, allow, dry) : n \in 1..maxhosts, allow \in BOOLEAN, dry \in BOOLEAN}
    \cup VariedArgs

\* ================================================================= state
VARIABLES
    host_ips,        \* the validated host list (sequence of names)
    allow_downgrade, \* --allow-downgrade
    rpc_durations,   \* seconds the devices of this run take to answer an RPC
    cpc,             \* coordinator position in execute_code_upgrade
    next_submit,     \* index i of the submission loop
    future_to_hostname, \* list entries whose task was submitted (the futures)
    final_statuses,  \* the aggregate: sequence of DeviceStatus
    completed_count, \* completed_count of the collection loop
    op_events,       \* OPERATION_* events emitted by the coordinator
    pc,              \* per list entry: position of its upgrade_device task
    status,          \* per list entry: the DeviceStatus of its workflow
    current_step,    \* per list entry: current_step of upgrade_device
    attempt,         \* per list entry: attempt of establish_connection_with_retry
    connected,       \* per list entry: dev.connected of the workflow's session
    events,          \* per list entry: STEP_* / VERSION_WARNING events emitted
    calls,           \* per list entry: device operations invoked so far
    elapsed,         \* per list entry: seconds spent waiting for RPC replies
    fault,           \* per list entry: a device operation failed or the policy blocked
    args,            \* the parsed command line (argparse namespace)
    mpc,             \* position of the script's entry point (__main__)
    exit_code,       \* exit status of the process, "None" while it runs
    call             \* a function of the script called on its own: its frame

coord_vars == <<cpc, next_submit, future_to_hostname, final_statuses,
                completed_count, op_events>>
worker_vars == <<pc, status, current_step, attempt, connected, events, calls,
                 elapsed, fault>>
\* what execute_code_upgrade and the workflows never write: the parameters
\* of the run, the entry point's own position, and frames of direct calls
param_vars == <<host_ips, allow_downgrade, rpc_durations, args, mpc, exit_code, call>>
vars == <<param_vars, coord_vars, worker_vars>>

N == Len(host_ips)
Entries == 1..N

\* ---------------------------------------------------------- DeviceStatus
\* dataclass DeviceStatus with its defaults; idx names the list entry (the
\* future) the record belongs to
DeviceStatus(i, hostname) ==
    [idx |-> i,
     hostname |-> hostname,
     phase |-> "PENDING",
     initial_version |-> "None",
     final_version |-> "None",
     version_action |-> "UNKNOWN",
     error |-> "None",
     error_type |-> "None",
     success |-> FALSE,
     start_time |-> FALSE,
     end_time |-> FALSE,
     step_durations |-> {},
     warnings |-> <<>>]

update_phase(st, phase) == [st EXCEPT !.phase = phase]

add_warning(st, warning) == [st EXCEPT !.warnings = Append(@, warning)]

\* ------------------------------------------------------- progress events
\* the keys of an event's data whose values json.dumps cannot serialise:
\* version_analysis holds "action", a member of the plain Enum VersionAction
EnumPayloadKeys == {"version_analysis"}

\* a mutant of StepEvent: a STEP_COMPLETE carries the number of the next step
StepEventAhead(step, event_type, st, extra) ==
    [event_type |-> event_type,
     step |-> IF event_type = "STEP_COMPLETE" THEN step + 1 ELSE step,
     status |-> st, extra |-> extra]

StepEvent(step, event_type, st, extra) ==
    [event_type |-> event_type, step |-> step, status |-> st, extra |-> extra]

\* send_progress ends in json.dumps(progress_update), which raises TypeError
\* for a payload that holds an Enum member
send_progress_raises(ev) == ev.extra \cap EnumPayloadKeys # {}

start_step(i) == ((i - 1) * STEPS_PER_DEVICE) + 1

\* ------------------------------------------------- handle_upgrade_error
\* a mutant of handle_upgrade_error_status: end_time is not set
handle_upgrade_error_untimed(st, error_type) ==
    [update_phase(st, "FAILED") EXCEPT !.error = error_type,
                                       !.error_type = error_type]

handle_upgrade_error_status(st, error_type) ==
    [update_phase(st, "FAILED") EXCEPT !.error = error_type,
                                       !.error_type = error_type,
                                       !.end_time = TRUE]

handle_upgrade_error_events(cs, ss) ==
    LET remaining_steps == STEPS_PER_DEVICE - (cs - ss)
    IN  <<StepEvent(cs, "STEP_COMPLETE", "FAILED", {"error_type"})>>
        \o [k \in 1..remaining_steps |->
                StepEvent(cs + k, "STEP_COMPLETE", "FAILED", {})]

\* a mutant of close_initial_connection: the finally clause is missing
keep_initial_connection(dev_connected) == dev_connected

\* the finally clause of the first try block of upgrade_device: "if dev and
\* dev.connected: dev.close()"; the value is dev.connected afterwards
close_initial_connection(dev_connected) == FALSE

\* the workflow of entry i catches error_type in its first try block: the
\* handler runs, the finally clause closes the session, the task returns
\* (before: events emitted and status reached before the raise)
RaiseInWorkflow(i, st, evs, error_type) ==
    /\ status' = [status EXCEPT ![i] = handle_upgrade_error_status(st, error_type)]
    /\ events' = [events EXCEPT
                    ![i] = evs \o handle_upgrade_error_events(current_step[i], start_step(i))]
    /\ connected' = [connected EXCEPT ![i] = close_initial_connection(@)]
    /\ pc' = [pc EXCEPT ![i] = "done"]


\* ================================================================== Init
\* the state before execute_code_upgrade is entered with the list hosts
InitRun(hosts, durations) ==
    /\ host_ips = hosts
    /\ allow_downgrade \in BOOLEAN
    /\ rpc_durations = durations
    /\ cpc = "start"
    /\ next_submit = 1
    /\ future_to_hostname = {}
    /\ final_statuses = <<>>
    /\ completed_count = 0
    /\ op_events = <<>>
    /\ pc = [i \in Entries |-> "unsubmitted"]
    /\ status = [i \in Entries |-> DeviceStatus(i, host_ips[i])]
    /\ current_step = [i \in Entries |-> start_step(i)]
    /\ attempt = [i \in Entries |-> 0]
    /\ connected = [i \in Entries |-> FALSE]
    /\ events = [i \in Entries |-> <<>>]
    /\ calls = [i \in Entries |-> {}]
    /\ elapsed = [i \in Entries |-> 0]
    /\ fault = [i \in Entries |-> FALSE]

NoCall == [fn |-> "none"]

\* the script is started with the command line a: host_ips is what
\* validate_command_arguments returns for it
InitMain(a, durations) ==
    /\ InitRun(validate_command_arguments(a), durations)
    /\ allow_downgrade = a.allow_downgrade
    /\ args = a
    /\ mpc = "main"
    /\ exit_code = "None"
    /\ call = NoCall

Init == \E a \in ArgSets(MaxHosts) : InitMain(a, PromptDurations)

\* ============================================================== __main__
\* __main__ up to the call of execute_code_upgrade: validation, dry run
StartScript ==
    /\ mpc = "main"
    /\ IF validation_errors(args) # {}
       THEN /\ op_events' = Append(op_events,
                                   [event_type |-> "OPERATION_COMPLETE", status |-> "FAILED"])
            /\ mpc' = "exited"
            /\ exit_code' = 1
       ELSE IF args.dry_run
       THEN /\ op_events' = Append(op_events,
                                   [event_type |-> "OPERATION_START",
                                    total_steps |-> N * STEPS_PER_DEVICE,
                                    dry_run |-> TRUE])
            /\ mpc' = "exited"
            /\ exit_code' = 0
       ELSE /\ mpc' = "execute"
            /\ UNCHANGED <<op_events, exit_code>>
    /\ UNCHANGED <<host_ips, allow_downgrade, rpc_durations, args, call>>
    /\ UNCHANGED <<cpc, next_submit, future_to_hostname, final_statuses, completed_count>>
    /\ UNCHANGED worker_vars

\* execute_code_upgrade has returned: the script runs off its end
FinishScript ==
    /\ mpc = "execute"
    /\ cpc = "complete"
    /\ mpc' = "exited"
    /\ exit_code' = 0
    /\ UNCHANGED <<host_ips, allow_downgrade, rpc_durations, args, call>>
    /\ UNCHANGED <<coord_vars, worker_vars>>

\* generate_final_summary raises while it prints the report (stdout is
\* closed, or cannot encode the report): execute_code_upgrade, which has
\* emitted its OPERATION_COMPLETE, propagates the exception and the except
\* clause of __main__ emits OPERATION_COMPLETE FAILED and exits with 1
SummaryFails ==
    /\ mpc = "execute"
    /\ cpc = "complete"
    /\ op_events' = Append(op_events,
                           [event_type |-> "OPERATION_COMPLETE", status |-> "FAILED"])
    /\ mpc' = "exited"
    /\ exit_code' = 1
    /\ UNCHANGED <<host_ips, allow_downgrade, rpc_durations, args, call>>
    /\ UNCHANGED <<cpc, next_submit, future_to_hostname, final_statuses, completed_count>>
    /\ UNCHANGED worker_vars

\* =========================================================== coordinator
\* execute_code_upgrade up to the thread pool: OPERATION_START
OperationStart ==
    /\ mpc = "execute"
    /\ cpc = "start"
    /\ op_events' = Append(op_events,
                           [event_type |-> "OPERATION_START",
                            total_steps |-> N * STEPS_PER_DEVICE])
    /\ cpc' = "submit"
    /\ UNCHANGED <<next_submit, future_to_hostname, final_statuses, completed_count>>
    /\ UNCHANGED <<param_vars, worker_vars>>

\* a mutant of AfterSubmit: the submission loop is never left
AfterSubmitStays(i) == "submit"

\* the "for i, hostname in enumerate(host_ips)" loop goes on with the next
\* host, or is over and the collection loop begins
AfterSubmit(i) == IF i = N THEN "collect" ELSE "submit"

\* executor.submit(upgrade_device, ...) returns a future
SubmitTask(i) ==
    /\ cpc = "submit"
    /\ next_submit = i
    /\ future_to_hostname' = future_to_hostname \cup {i}
    /\ pc' = [pc EXCEPT ![i] = "queued"]
    /\ next_submit' = i + 1
    /\ cpc' = AfterSubmit(i)
    /\ UNCHANGED <<final_statuses, completed_count, op_events>>
    /\ UNCHANGED <<status, current_step, attempt, connected, events, calls, elapsed, fault>>
    /\ UNCHANGED param_vars

\* a mutant of CoordinatorErrorStatus: the record keeps the default phase
CoordinatorDefaultStatus(i, error_type) ==
    [DeviceStatus(i, host_ips[i]) EXCEPT !.error = error_type,
                                         !.error_type = error_type]

\* the DeviceStatus the coordinator builds itself for a failed entry
CoordinatorErrorStatus(i, error_type) ==
    [DeviceStatus(i, host_ips[i]) EXCEPT !.phase = "FAILED",
                                         !.error = error_type,
                                         !.error_type = error_type]

\* a mutant of record_status: the status of a failed submission is dropped
record_status_dropping(sts, st) ==
    IF st.error_type = "TaskSubmissionError" THEN sts ELSE Append(sts, st)

\* final_statuses.append(st)
record_status(sts, st) == Append(sts, st)

\* executor.submit raises: the entry is recorded as failed, the loop goes on
SubmitFails(i) ==
    /\ cpc = "submit"
    /\ next_submit = i
    /\ final_statuses' = record_status(final_statuses,
                                       CoordinatorErrorStatus(i, "TaskSubmissionError"))
    /\ pc' = [pc EXCEPT ![i] = "rejected"]
    /\ next_submit' = i + 1
    /\ cpc' = AfterSubmit(i)
    /\ UNCHANGED <<future_to_hostname, completed_count, op_events>>
    /\ UNCHANGED <<status, current_step, attempt, connected, events, calls, elapsed, fault>>
    /\ UNCHANGED param_vars

\* a mutant of Yielded: as_completed forgets what it has yielded
YieldedNever == {}

\* the futures as_completed has yielded so far
Yielded == {i \in future_to_hostname : \E k \in 1..Len(final_statuses) :
                                          final_statuses[k].idx = i}

\* what the collection loop appends for the completed future of entry i:
\* future.result(timeout=DEFAULT_DEVICE_TIMEOUT) of a future that is done
\* returns the workflow's DeviceStatus at once
CollectedStatus(i) == status[i]

\* one iteration of "for future in as_completed(future_to_hostname)"
CollectResult(i) ==
    /\ cpc = "collect"
    /\ i \in future_to_hostname \ Yielded
    /\ pc[i] = "done"
    /\ completed_count' = completed_count + 1
    /\ final_statuses' = record_status(final_statuses, CollectedStatus(i))
    /\ op_events' = Append(op_events,
                           [event_type |-> "OPERATION_PROGRESS",
                            completed_devices |-> completed_count + 1,
                            total_devices |-> N,
                            completion_percentage |-> ((completed_count + 1) * 100) \div N])
    /\ UNCHANGED <<cpc, next_submit, future_to_hostname>>
    /\ UNCHANGED <<param_vars, worker_vars>>

successful_devices(sts) == {k \in 1..Len(sts) : sts[k].success}
failed_devices(sts) == {k \in 1..Len(sts) : ~sts[k].success}
skipped_devices(sts) == {k \in 1..Len(sts) : sts[k].phase = "SKIPPED"}

overall_status(sts) ==
    IF Cardinality(failed_devices(sts)) = 0 THEN "SUCCESS"
    ELSE IF Cardinality(successful_devices(sts)) > 0 THEN "PARTIAL_SUCCESS"
    ELSE "FAILED"

\* as_completed is exhausted: final statistics and OPERATION_COMPLETE
OperationComplete ==
    /\ cpc = "collect"
    /\ Yielded = future_to_hostname
    /\ op_events' = Append(op_events,
                           [event_type |-> "OPERATION_COMPLETE",
                            status |-> overall_status(final_statuses),
                            total_devices |-> Len(final_statuses),
                            successful_devices |-> Cardinality(successful_devices(final_statuses)),
                            failed_devices |-> Cardinality(failed_devices(final_statuses)),
                            skipped_devices |-> Cardinality(skipped_devices(final_statuses))])
    /\ cpc' = "complete"
    /\ UNCHANGED <<next_submit, future_to_hostname, final_statuses, completed_count>>
    /\ UNCHANGED <<param_vars, worker_vars>>


\* ======================================================= upgrade_device
\* entries whose task occupies a worker thread of the pool
Running == {i \in Entries : pc[i] \notin {"unsubmitted", "queued", "rejected", "done"}}

\* a mutant of worker_available: the pool starts a thread for every task
worker_unbounded(max_workers) == TRUE

\* ThreadPoolExecutor(max_workers=max_workers): a queued task is taken when
\* fewer than max_workers tasks occupy a thread
worker_available(max_workers) == Cardinality(Running) < max_workers

\* a worker thread takes the task: DeviceStatus is created, phase 1 starts
StartWorkflow(i) ==
    /\ pc[i] = "queued"
    /\ worker_available(DEFAULT_MAX_WORKERS)
    /\ status' = [status EXCEPT
                    ![i] = update_phase([DeviceStatus(i, host_ips[i]) EXCEPT !.start_time = TRUE],
                                        "CONNECTING")]
    /\ current_step' = [current_step EXCEPT ![i] = start_step(i)]
    /\ events' = [events EXCEPT
                    ![i] = Append(@, StepEvent(start_step(i), "STEP_START", "None", {}))]
    /\ pc' = [pc EXCEPT ![i] = "connect"]
    /\ UNCHANGED <<attempt, connected, calls, elapsed, fault>>
    /\ UNCHANGED <<param_vars, coord_vars>>

\* establish_connection_with_retry: dev.open() succeeds on this attempt
ConnectionOpens(i) ==
    /\ pc[i] = "connect"
    /\ connected' = [connected EXCEPT ![i] = TRUE]
    /\ calls' = [calls EXCEPT ![i] = @ \cup {"open"}]
    /\ attempt' = [attempt EXCEPT ![i] = 0]
    /\ pc' = [pc EXCEPT ![i] = "facts"]
    /\ UNCHANGED <<status, current_step, events, elapsed, fault>>
    /\ UNCHANGED <<param_vars, coord_vars>>

\* establish_connection_with_retry: dev.open() raises on this attempt
ConnectionFails(i) ==
    /\ pc[i] = "connect"
    /\ calls' = [calls EXCEPT ![i] = @ \cup {"open"}]
    /\ IF attempt[i] < DEFAULT_RETRY_ATTEMPTS - 1
       THEN /\ attempt' = [attempt EXCEPT ![i] = @ + 1]
            /\ UNCHANGED <<pc, status, events, connected, fault>>
       ELSE /\ RaiseInWorkflow(i, status[i], events[i], "ConnectionError")
            /\ attempt' = [attempt EXCEPT ![i] = 0]
            /\ fault' = [fault EXCEPT ![i] = TRUE]
    /\ UNCHANGED <<current_step, elapsed>>
    /\ UNCHANGED <<param_vars, coord_vars>>

\* rest of phase 1: dev.facts is read, STEP_COMPLETE, phase 2 begins
GatherFacts(i) ==
    /\ pc[i] = "facts"
    /\ \E v \in DeviceVersions, d \in rpc_durations :
         /\ status' = [status EXCEPT
                         ![i] = update_phase([@ EXCEPT !.initial_version = v,
                                                       !.final_version = v,
                                                       !.step_durations = @ \cup {current_step[i]}],
                                             "VALIDATING_IMAGE")]
         /\ elapsed' = [elapsed EXCEPT ![i] = @ + d]
    /\ calls' = [calls EXCEPT ![i] = @ \cup {"facts"}]
    /\ events' = [events EXCEPT
                    ![i] = Append(@, StepEvent(current_step[i], "STEP_COMPLETE",
                                               "COMPLETED", {"device_info"}))]
    /\ current_step' = [current_step EXCEPT ![i] = @ + 1]
    /\ pc' = [pc EXCEPT ![i] = "validate"]
    /\ UNCHANGED <<attempt, connected, fault>>
    /\ UNCHANGED <<param_vars, coord_vars>>

\* what the device shows for the image: listed with a size > 0 (whatever
\* "file archive verify" then answers or raises, image_valid is set True),
\* listed with 0 bytes, not listed, or the listing command raises
ImageOutcomes == {"found", "empty", "missing", "cli_error"}

\* validate_image_availability, and on success the start of phase 3
ValidateImage(i) ==
    /\ pc[i] = "validate"
    /\ \E outcome \in ImageOutcomes, d1 \in rpc_durations, d2 \in rpc_durations :
         LET cs == current_step[i]
             started == Append(events[i], StepEvent(cs, "STEP_START", "None", {}))
         IN
         \/ /\ outcome = "found"
            /\ elapsed' = [elapsed EXCEPT ![i] = @ + d1 + d2]
            /\ calls' = [calls EXCEPT ![i] = @ \cup {"file_list", "archive_verify"}]
            /\ status' = [status EXCEPT
                            ![i] = update_phase([@ EXCEPT !.step_durations = @ \cup {cs}],
                                                "ANALYZING_VERSION")]
            /\ events' = [events EXCEPT
                            ![i] = started
                                   \o <<StepEvent(cs, "STEP_COMPLETE", "COMPLETED", {}),
                                        StepEvent(cs + 1, "STEP_START", "None", {})>>]
            /\ current_step' = [current_step EXCEPT ![i] = cs + 1]
            /\ pc' = [pc EXCEPT ![i] = "analyze"]
            /\ UNCHANGED <<connected, fault>>
         \/ /\ outcome = "empty"
            /\ d2 = 0
            /\ elapsed' = [elapsed EXCEPT ![i] = @ + d1]
            /\ calls' = [calls EXCEPT ![i] = @ \cup {"file_list"}]
            /\ RaiseInWorkflow(i, status[i], started, "ImageValidationError")
            /\ fault' = [fault EXCEPT ![i] = TRUE]
            /\ UNCHANGED current_step
         \/ /\ outcome = "missing"
            /\ d2 = 0
            /\ elapsed' = [elapsed EXCEPT ![i] = @ + d1]
            /\ calls' = [calls EXCEPT ![i] = @ \cup {"file_list"}]
            /\ RaiseInWorkflow(i, status[i],
                               Append(started, StepEvent(cs, "STEP_COMPLETE", "FAILED",
                                                         {"validation_result"})),
                               "ImageValidationError")
            /\ fault' = [fault EXCEPT ![i] = TRUE]
            /\ UNCHANGED current_step
         \/ /\ outcome = "cli_error"
            /\ d2 = 0
            /\ elapsed' = [elapsed EXCEPT ![i] = @ + d1]
            /\ calls' = [calls EXCEPT ![i] = @ \cup {"file_list"}]
            /\ RaiseInWorkflow(i, status[i],
                               Append(started, StepEvent(cs, "STEP_COMPLETE", "FAILED", {})),
                               "ImageValidationError")
            /\ fault' = [fault EXCEPT ![i] = TRUE]
            /\ UNCHANGED current_step
    /\ UNCHANGED attempt
    /\ UNCHANGED <<param_vars, coord_vars>>

\* a mutant of downgrade_blocked: the gate lets every downgrade through
downgrade_never_blocked(action, allow) == FALSE

\* the policy gate of phase 3: a downgrade needs --allow-downgrade
downgrade_blocked(action, allow) == action = "DOWNGRADE" /\ ~allow

\* phase 3 up to its STEP_COMPLETE: analysis, warnings, MAINTAIN / policy gate
AnalyzeVersion(i) ==
    /\ pc[i] = "analyze"
    /\ LET version_analysis == VersionAnalysis[status[i].initial_version]
           action == version_analysis.action
           analysed == [status[i] EXCEPT !.version_action = action,
                                         !.warnings = @ \o version_analysis.warnings]
       IN  IF action = "MAINTAIN"
           THEN /\ status' = [status EXCEPT
                                ![i] = [update_phase(analysed, "SKIPPED") EXCEPT !.success = TRUE]]
                /\ pc' = [pc EXCEPT ![i] = "skip_complete"]
                /\ UNCHANGED <<events, connected, fault>>
           ELSE IF downgrade_blocked(action, allow_downgrade)
           THEN /\ RaiseInWorkflow(i, analysed, events[i], "PolicyViolationError")
                /\ fault' = [fault EXCEPT ![i] = TRUE]
           ELSE IF action = "DOWNGRADE"
           THEN /\ status' = [status EXCEPT ![i] = add_warning(analysed, "downgrade_operation")]
                /\ events' = [events EXCEPT
                                ![i] = Append(@, StepEvent(current_step[i], "VERSION_WARNING",
                                                           "None", {"recommendations"}))]
                /\ pc' = [pc EXCEPT ![i] = "analysis_complete"]
                /\ UNCHANGED <<connected, fault>>
           ELSE /\ status' = [status EXCEPT ![i] = analysed]
                /\ pc' = [pc EXCEPT ![i] = "analysis_complete"]
                /\ UNCHANGED <<events, connected, fault>>
    /\ UNCHANGED <<current_step, attempt, calls, elapsed>>
    /\ UNCHANGED <<param_vars, coord_vars>>

\* MAINTAIN branch after success = True: STEP_COMPLETE with version_analysis,
\* the SKIPPED events of the remaining steps, return status
CompleteSkipped(i) ==
    /\ pc[i] = "skip_complete"
    /\ LET cs == current_step[i]
           ev == StepEvent(cs, "STEP_COMPLETE", "COMPLETED", {"version_analysis"})
           rest == STEPS_PER_DEVICE - (cs - start_step(i) + 1)
       IN  IF send_progress_raises(ev)
           THEN RaiseInWorkflow(i, status[i], events[i], "TypeError")
           ELSE /\ events' = [events EXCEPT
                                ![i] = Append(@, ev)
                                       \o [k \in 1..rest |->
                                             StepEvent(cs + k, "STEP_COMPLETE", "SKIPPED", {})]]
                /\ status' = [status EXCEPT ![i].step_durations = @ \cup {cs}]
                /\ connected' = [connected EXCEPT ![i] = close_initial_connection(@)]
                /\ pc' = [pc EXCEPT ![i] = "done"]
    /\ UNCHANGED <<current_step, attempt, calls, elapsed, fault>>
    /\ UNCHANGED <<param_vars, coord_vars>>

\* end of phase 3 for UPGRADE / DOWNGRADE / UNKNOWN: STEP_COMPLETE with
\* version_analysis, then on to phase 4
CompleteAnalysis(i) ==
    /\ pc[i] = "analysis_complete"
    /\ LET cs == current_step[i]
           ev == StepEvent(cs, "STEP_COMPLETE", "COMPLETED", {"version_analysis"})
       IN  IF send_progress_raises(ev)
           THEN /\ RaiseInWorkflow(i, status[i], events[i], "TypeError")
                /\ UNCHANGED current_step
           ELSE /\ events' = [events EXCEPT ![i] = Append(@, ev)]
                /\ status' = [status EXCEPT ![i].step_durations = @ \cup {cs}]
                /\ current_step' = [current_step EXCEPT ![i] = cs + 1]
                /\ pc' = [pc EXCEPT ![i] = "install"]
                /\ UNCHANGED connected
    /\ UNCHANGED <<attempt, calls, elapsed, fault>>
    /\ UNCHANGED <<param_vars, coord_vars>>

\* ================================================================== Next
Next ==
    \/ StartScript
    \/ FinishScript
    \/ SummaryFails
    \/ OperationStart
    \/ \E i \in Entries : SubmitTask(i)
    \/ \E i \in Entries : SubmitFails(i)
    \/ \E i \in Entries : CollectResult(i)
    \/ OperationComplete
    \/ \E i \in Entries : StartWorkflow(i)
    \/ \E i \in Entries : ConnectionOpens(i)
    \/ \E i \in Entries : ConnectionFails(i)
    \/ \E i \in Entries : GatherFacts(i)
    \/ \E i \in Entries : ValidateImage(i)
    \/ \E i \in Entries : AnalyzeVersion(i)
    \/ \E i \in Entries : CompleteSkipped(i)
    \/ \E i \in Entries : CompleteAnalysis(i)

Spec == Init /\ [][Next]_vars

\* runs against devices that may take up to dev.timeout for each RPC
MaxTimedHosts == 1

InitTimed == \E a \in ArgSets(MaxTimedHosts) : InitMain(a, RpcDurations)

SpecTimed == InitTimed /\ [][Next]_vars

\* runs with more hosts than worker threads, against devices that refuse
\* every session: each workflow is the three connection attempts
MaxPoolHosts == 6

InitPool ==
    \E n \in (DEFAULT_MAX_WORKERS + 1)..MaxPoolHosts :
        InitMain(GoodArgs(n, FALSE, FALSE), PromptDurations)

NextPool ==
    \/ StartScript
    \/ FinishScript
    \/ OperationStart
    \/ \E i \in Entries : SubmitTask(i)
    \/ \E i \in Entries : SubmitFails(i)
    \/ \E i \in Entries : CollectResult(i)
    \/ OperationComplete
    \/ \E i \in Entries : StartWorkflow(i)
    \/ \E i \in Entries : ConnectionFails(i)

SpecPool == InitPool /\ [][NextPool]_vars


\* ================================================================ claims
\* the record of list entry i in the final aggregate
Records(i) == {k \in 1..Len(final_statuses) : final_statuses[k].idx = i}

\* the workflow of entry i has returned and none of its device operations
\* failed, nor was it stopped by the downgrade policy
Healthy(i) == pc[i] = "done" /\ ~fault[i]

HasEvent(i, step, event_type, st) ==
    \E k \in 1..Len(events[i]) :
        /\ events[i][k].step = step
        /\ events[i][k].event_type = event_type
        /\ events[i][k].status = st

DestructiveCalls == {"validate_package", "install", "reboot"}

\* the last event of the coordinator
LastOpEvent == op_events[Len(op_events)]

\* C1: when the operation completes, the final aggregate holds exactly one
\* DeviceStatus per entry of the host list: N records, none duplicated, none
\* dropped, whatever the per-device outcomes (including failed submissions)
C1_AggregateComplete ==
    cpc = "complete" =>
        /\ Len(final_statuses) = N
        /\ \A i \in Entries : Cardinality(Records(i)) = 1

C1_Witness ==
    /\ cpc = "complete"
    /\ N >= 2
    /\ \E i \in Entries : pc[i] = "rejected"
    /\ \E i \in Entries : pc[i] = "done" /\ status[i].error_type = "ImageValidationError"

\* C2: failure isolation: when some device fails, every other device whose
\* own steps all succeed (and that needs an upgrade or a permitted downgrade)
\* is in the final aggregate with phase COMPLETED, success, and no error
C2_FailureIsolation ==
    cpc = "complete" =>
        \A i \in Entries :
            ( /\ Healthy(i)
              /\ status[i].version_action # "MAINTAIN"
              /\ \E j \in Entries \ {i} : fault[j] )
            => \A k \in Records(i) :
                  /\ final_statuses[k].phase = "COMPLETED"
                  /\ final_statuses[k].success
                  /\ final_statuses[k].error_type = "None"

\* C3: a device whose workflow ran longer than DEFAULT_DEVICE_TIMEOUT is in
\* the aggregate as FAILED, without success, with a timeout error type
C3_TimeBox ==
    \A k \in 1..Len(final_statuses) :
        elapsed[final_statuses[k].idx] > DEFAULT_DEVICE_TIMEOUT
        => /\ final_statuses[k].phase = "FAILED"
           /\ ~final_statuses[k].success
           /\ final_statuses[k].error_type = "TimeoutError"

\* C4: the status of OPERATION_COMPLETE is SUCCESS without failures,
\* PARTIAL_SUCCESS with a success and a failure, FAILED without successes;
\* three devices, one unreachable and two healthy, give PARTIAL_SUCCESS with
\* successful_devices = 2 and failed_devices = 1
C4_OverallStatus ==
    cpc = "complete" =>
        LET ev == LastOpEvent
            ok == Cardinality(successful_devices(final_statuses))
            bad == Cardinality(failed_devices(final_statuses))
            unreachable == {i \in Entries : status[i].error_type = "ConnectionError"}
            healthy == {i \in Entries : Healthy(i)}
        IN  /\ ev.event_type = "OPERATION_COMPLETE"
            /\ (bad = 0 => ev.status = "SUCCESS")
            /\ (ok > 0 /\ bad > 0 => ev.status = "PARTIAL_SUCCESS")
            /\ (ok = 0 => ev.status = "FAILED")
            /\ ( (N = 3 /\ Cardinality(unreachable) = 1 /\ Cardinality(healthy) = 2)
                 => /\ ev.status = "PARTIAL_SUCCESS"
                    /\ ev.successful_devices = 2
                    /\ ev.failed_devices = 1 )

\* C5: a device already on the target version (MAINTAIN) ends upgrade_device
\* with phase SKIPPED and success, its install, probe and verify steps get
\* STEP_COMPLETE with status SKIPPED, and none of those phases is executed
C5_MaintainSkips ==
    \A i \in Entries :
        (pc[i] = "done" /\ status[i].version_action = "MAINTAIN")
        => /\ status[i].phase = "SKIPPED"
           /\ status[i].success
           /\ \A step \in (start_step(i) + 3)..(start_step(i) + STEPS_PER_DEVICE - 1) :
                 HasEvent(i, step, "STEP_COMPLETE", "SKIPPED")
           /\ calls[i] \cap DestructiveCalls = {}

\* C6: a DOWNGRADE without --allow-downgrade fails the device at the policy
\* gate with error_type PolicyViolationError, and package validation,
\* installation and the reboot command are not invoked for it
C6_PolicyGate ==
    \A i \in Entries :
        (status[i].version_action = "DOWNGRADE" /\ ~allow_downgrade)
        => /\ pc[i] = "done"
           /\ status[i].phase = "FAILED"
           /\ ~status[i].success
           /\ status[i].error_type = "PolicyViolationError"
           /\ calls[i] \cap DestructiveCalls = {}
           /\ ~HasEvent(i, start_step(i) + 3, "STEP_START", "None")

C6_Witness ==
    \E i \in Entries :
        /\ pc[i] = "done"
        /\ status[i].version_action = "DOWNGRADE"
        /\ ~allow_downgrade
        /\ status[i].error_type = "PolicyViolationError"
        /\ "file_list" \in calls[i]

\* C7: a DOWNGRADE with --allow-downgrade records the downgrade warning,
\* emits VERSION_WARNING, and then goes on to the installation step instead
\* of failing in version analysis
C7_DowngradeProceeds ==
    \A i \in Entries :
        (pc[i] = "done" /\ status[i].version_action = "DOWNGRADE" /\ allow_downgrade)
        => /\ "downgrade_operation" \in Range(status[i].warnings)
           /\ HasEvent(i, start_step(i) + 2, "VERSION_WARNING", "None")
           /\ HasEvent(i, start_step(i) + 2, "STEP_COMPLETE", "COMPLETED")
           /\ HasEvent(i, start_step(i) + 3, "STEP_START", "None")

\* C8: when a phase raises, STEP_COMPLETE with status FAILED is emitted for
\* the failing step and every remaining step, the phase is FAILED with error
\* and error_type of the exception, and the returned status has success false
C8_ErrorHandling ==
    \A i \in Entries :
        (pc[i] = "done" /\ status[i].error_type # "None")
        => /\ status[i].phase = "FAILED"
           /\ status[i].error # "None"
           /\ ~status[i].success
           /\ \A step \in current_step[i]..(start_step(i) + STEPS_PER_DEVICE - 1) :
                 HasEvent(i, step, "STEP_COMPLETE", "FAILED")

\* the phase sequence of a workflow
PhaseOrder == <<"PENDING", "CONNECTING", "VALIDATING_IMAGE", "ANALYZING_VERSION",
                "INSTALLING", "REBOOTING", "PROBING", "VERIFYING", "COMPLETED">>

TerminalPhases == {"COMPLETED", "FAILED", "SKIPPED"}

PhaseStepAllowed(p, q) ==
    \/ p = q
    \/ p \notin TerminalPhases /\ q = "FAILED"
    \/ p = "ANALYZING_VERSION" /\ q = "SKIPPED"
    \/ \E k \in 1..(Len(PhaseOrder) - 1) : PhaseOrder[k] = p /\ PhaseOrder[k + 1] = q

\* C9: the phase of a DeviceStatus only moves to the next phase of the
\* sequence, to FAILED, or from ANALYZING_VERSION to SKIPPED, and never
\* changes once it is COMPLETED, FAILED or SKIPPED
C9_PhaseMonotonic ==
    [][\A i \in Entries : PhaseStepAllowed(status[i].phase, status'[i].phase)]_vars

\* C10: in the final aggregate success is true exactly for the phases
\* COMPLETED and SKIPPED; a FAILED status has success false
C10_SuccessIffCompleted ==
    cpc = "complete" =>
        \A k \in 1..Len(final_statuses) :
            final_statuses[k].success <=> final_statuses[k].phase \in {"COMPLETED", "SKIPPED"}

\* C11: in the final aggregate error and error_type are populated exactly
\* for the devices that failed (success = false); a successful or skipped
\* device has error = None and error_type = None
C11_ErrorIffFailed ==
    cpc = "complete" =>
        \A k \in 1..Len(final_statuses) :
            LET populated == final_statuses[k].error # "None"
                             /\ final_statuses[k].error_type # "None"
                blank == final_statuses[k].error = "None"
                         /\ final_statuses[k].error_type = "None"
            IN  /\ populated <=> ~final_statuses[k].success
                /\ final_statuses[k].success => blank

OperationSucceeded == cpc = "complete" /\ overall_status(final_statuses) = "SUCCESS"

\* C13: the process exits with 0 only when the overall operation succeeded
\* and with 1 otherwise: overall status FAILED or PARTIAL_SUCCESS exits 1,
\* and so does a run that argument validation aborts (a dry run, which
\* performs no operation, is left aside)
C13_ExitCode ==
    (mpc = "exited" /\ ~args.dry_run) =>
        /\ exit_code = 0 <=> OperationSucceeded
        /\ ~OperationSucceeded => exit_code = 1

\* the command line is one the claim calls rejected: a malformed hostname,
\* or missing hostname, credentials, image filename or target version
Malformed(a) ==
    \/ \E k \in 1..Len(a.hostname) : a.hostname[k] = "bad host!"
    \/ \A k \in 1..Len(a.hostname) : a.hostname[k] = ""
    \/ a.username \in {"", " "}
    \/ a.password = ""
    \/ a.image_filename = ""
    \/ a.target_version = ""

\* C14: after a rejected command line, or with --dry-run, no device work is
\* started: execute_code_upgrade is never entered, no upgrade_device task is
\* submitted or started, and no device operation or session is opened
C14_NoWorkOnReject ==
    (Malformed(args) \/ args.dry_run) =>
        /\ mpc # "execute"
        /\ cpc = "start"
        /\ future_to_hostname = {}
        /\ final_statuses = <<>>
        /\ \A i \in Entries : pc[i] = "unsubmitted" /\ calls[i] = {} /\ ~connected[i]
        /\ \A k \in 1..Len(op_events) :
              op_events[k].event_type \in {"OPERATION_START", "OPERATION_COMPLETE"}

C14_Witness ==
    /\ mpc = "exited"
    /\ exit_code = 1
    /\ \E k \in 1..Len(args.hostname) : args.hostname[k] = "bad host!"
    /\ \E k \in 1..Len(args.hostname) : args.hostname[k] = "r1"


\* ========================================================== direct calls
\* Functions of the script called on their own, with arguments and device
\* behaviour drawn from small sets.  call is the frame of the call.
\* an optional number of a frame: Python's None, or the number n
None == <<>>

At(n) == <<n>>

run_vars == <<host_ips, allow_downgrade, rpc_durations, args, mpc, exit_code,
              coord_vars, worker_vars>>

\* ------------------------------------- establish_connection_with_retry
MaxRetries == 7

BACKOFF_CAP == 30

Min(a, b) == IF a < b THEN a ELSE b

RECURSIVE Pow2(_)
Pow2(n) == IF n = 0 THEN 1 ELSE 2 * Pow2(n - 1)

\* a mutant of wait_time: the backoff is not capped
wait_time_uncapped(n) == Pow2(n)

\* wait_time = min(2 ** attempt, 30)
wait_time(n) == Min(Pow2(n), BACKOFF_CAP)

\* frame of establish_connection_with_retry(hostname, username, password, m);
\* opens counts dev.open() calls, an error is named by the attempt that raised it
RetryFrame(m) ==
    [fn |-> "establish_connection_with_retry", max_retries |-> m, pc |-> "loop",
     attempt |-> 0, opens |-> 0, sleeps |-> <<>>, last_error |-> None,
     returned_dev |-> None, raised |-> "None", carried |-> None]

InRetry == call.fn = "establish_connection_with_retry"

\* dev.open() returns on this attempt: the Device is returned at once
RetryOpenReturns ==
    /\ InRetry
    /\ call.pc = "loop"
    /\ call' = [call EXCEPT !.opens = @ + 1,
                            !.returned_dev = At(call.attempt),
                            !.pc = "returned"]
    /\ UNCHANGED run_vars

\* dev.open() raises on this attempt: back off and retry, or give up
RetryOpenRaises ==
    /\ InRetry
    /\ call.pc = "loop"
    /\ IF call.attempt < call.max_retries - 1
       THEN call' = [call EXCEPT !.opens = @ + 1,
                                 !.last_error = At(call.attempt),
                                 !.sleeps = Append(@, wait_time(call.attempt)),
                                 !.attempt = @ + 1]
       ELSE call' = [call EXCEPT !.opens = @ + 1,
                                 !.last_error = At(call.attempt),
                                 !.raised = "ConnectionError",
                                 !.carried = At(call.attempt),
                                 !.pc = "raised"]
    /\ UNCHANGED run_vars

\* C15: establish_connection_with_retry opens at most max_retries sessions,
\* returns the session of the first attempt that succeeds (every earlier
\* attempt failed, none is made after it), has slept min(2^attempt, 30)
\* seconds after each failed attempt but the last, and raises ConnectionError
\* carrying the last attempt's error exactly when all max_retries failed
C15_RetryBackoff ==
    InRetry =>
        LET failed == IF call.pc = "returned" THEN call.opens - 1 ELSE call.opens
            slept == IF call.pc = "raised" THEN failed - 1 ELSE failed
        IN  /\ call.opens <= call.max_retries
            /\ call.pc = "returned" => call.returned_dev = At(call.opens - 1)
            /\ Len(call.sleeps) = slept
            /\ \A k \in 1..Len(call.sleeps) :
                  call.sleeps[k] = IF 2 ^ (k - 1) < 30 THEN 2 ^ (k - 1) ELSE 30
            /\ call.pc = "raised" <=> failed = call.max_retries
            /\ call.pc = "raised" =>
                  /\ call.raised = "ConnectionError"
                  /\ call.carried = At(call.max_retries - 1)
            /\ call.pc # "raised" => call.raised = "None"

C15_Witness ==
    /\ InRetry
    /\ call.pc = "raised"
    /\ call.max_retries = MaxRetries
    /\ call.sleeps[Len(call.sleeps)] = 30


\* -------------------------------------------- managed_device_connection
\* how the block under "with managed_device_connection(...)" is left
BlockExits == {"normal", "raise", "return"}

\* a mutant of finally_runs: cleanup only on the normal end of the block
finally_runs_on_normal_exit(exit_kind) == exit_kind = "normal"

\* the finally clause runs however the generator is resumed or closed
finally_runs(exit_kind) == exit_kind \in BlockExits

\* frame of one use of the context manager; connected is dev.connected
ManagedFrame ==
    [fn |-> "managed_device_connection", pc |-> "enter", opened |-> FALSE,
     connected |-> FALSE, close_calls |-> 0, close_raised |-> FALSE,
     exit_kind |-> "None", propagated |-> "None"]

InManaged == call.fn = "managed_device_connection"

\* Device(...) and dev.open() succeed: the block is entered with the session
ManagedOpenReturns ==
    /\ InManaged
    /\ call.pc = "enter"
    /\ call' = [call EXCEPT !.opened = TRUE, !.connected = TRUE, !.pc = "block"]
    /\ UNCHANGED run_vars

\* dev.open() raises: finally finds no connected session, the error propagates
ManagedOpenRaises ==
    /\ InManaged
    /\ call.pc = "enter"
    /\ call' = [call EXCEPT !.pc = "left", !.propagated = "open_error"]
    /\ UNCHANGED run_vars

\* the block is left; still_connected: the session is still up at that
\* moment; close_ok: dev.close() returns (otherwise it raises, which is
\* swallowed, and the session may or may not be gone: still_open)
ManagedLeaveBlock ==
    /\ InManaged
    /\ call.pc = "block"
    /\ \E exit_kind \in BlockExits, still_connected \in BOOLEAN,
          close_ok \in BOOLEAN, still_open \in BOOLEAN :
         /\ close_ok => ~still_open
         /\ ~still_connected => (close_ok /\ ~still_open)
         /\ LET closing == finally_runs(exit_kind) /\ still_connected
            IN  call' = [call EXCEPT
                           !.pc = "left",
                           !.exit_kind = exit_kind,
                           !.propagated = IF exit_kind = "raise" THEN "block_error"
                                          ELSE "None",
                           !.close_calls = IF closing THEN @ + 1 ELSE @,
                           !.close_raised = closing /\ ~close_ok,
                           !.connected = IF closing THEN still_open
                                         ELSE still_connected]
    /\ UNCHANGED run_vars

MonitorTimeouts == {0, 30, 45}

\* seconds the probes of one iteration take (ping -W 5, session timeout 20)
ProbeSeconds == {0, 7}

MONITOR_INTERVAL == 15

\* a mutant of ping_restored: the edge is detected the wrong way round
ping_restored_inverted(ping_success, last_ping_success) ==
    ping_success /\ last_ping_success

\* "if ping_success and not last_ping_success"
ping_restored(ping_success, last_ping_success) ==
    ping_success /\ ~last_ping_success

INITIAL_WAIT == 60

\* a mutant of ssh_probe_made: the session probe is made in every iteration
ssh_probe_always(ping_success) == TRUE

\* "if ping_success:" guards test_ssh_connectivity
ssh_probe_made(ping_success) == ping_success

\* Python truth value of an optional number: None and 0 are false
Truthy(x) == x # None /\ x # At(0)

\* the two status lines of format_reboot_timeout_error, as tags
format_reboot_timeout_error(monitoring_result) ==
    {IF Truthy(monitoring_result.ping_restored_time)
     THEN "ping_restored" ELSE "ping_never_restored",
     IF Truthy(monitoring_result.ssh_restored_time)
     THEN "ssh_restored" ELSE "ssh_never_restored"}

NoPoll == [elapsed |-> 0, ping |-> FALSE, ssh_probed |-> FALSE, ssh |-> FALSE]

\* frame of monitor_device_reboot after STEP_START is out; waited: seconds
\* slept before the loop; now: seconds since start_time; ping_probes /
\* ssh_probes count the probes made; last_poll, ever_ping, ever_ssh and
\* first_ping record what the probes have observed
MonitorFrame(timeout) ==
    [fn |-> "monitor_device_reboot", timeout |-> timeout, pc |-> "wait", now |-> 0,
     waited |-> 0, last_ping_success |-> FALSE, ssh_attempts |-> 0,
     ping_probes |-> 0, ssh_probes |-> 0,
     monitoring_result |-> [reboot_successful |-> FALSE, total_downtime |-> 0,
                            ping_restored_time |-> None, ssh_restored_time |-> None],
     events |-> <<"STEP_START">>, raised |-> "None", error_msg |-> {},
     last_poll |-> NoPoll, ever_ping |-> FALSE, ever_ssh |-> FALSE,
     first_ping |-> None]

InMonitor == call.fn = "monitor_device_reboot"

\* time.sleep(initial_wait), then start_time is taken
MonitorInitialWait ==
    /\ InMonitor
    /\ call.pc = "wait"
    /\ call' = [call EXCEPT !.waited = INITIAL_WAIT, !.pc = "loop"]
    /\ UNCHANGED run_vars

\* one pass of "while time.time() - start_time < timeout"
MonitorIteration ==
    /\ InMonitor
    /\ call.pc = "loop"
    /\ call.now < call.timeout
    /\ \E ping_success \in BOOLEAN, ssh_reachable \in BOOLEAN, took \in ProbeSeconds :
            LET elapsed_s == call.now
                ssh_probed == ssh_probe_made(ping_success)
                ssh_success == ssh_probed /\ ssh_reachable
                pinged == IF ping_restored(ping_success, call.last_ping_success)
                          THEN [call.monitoring_result EXCEPT !.ping_restored_time = At(elapsed_s)]
                          ELSE call.monitoring_result
                seen == [call EXCEPT !.last_ping_success = ping_success,
                                     !.ping_probes = @ + 1,
                                     !.ssh_probes = IF ssh_probed THEN @ + 1 ELSE @,
                                     !.last_poll = [elapsed |-> elapsed_s,
                                                    ping |-> ping_success,
                                                    ssh_probed |-> ssh_probed,
                                                    ssh |-> ssh_success],
                                     !.ever_ping = @ \/ ping_success,
                                     !.ever_ssh = @ \/ ssh_success,
                                     !.first_ping = IF ping_success /\ ~call.ever_ping
                                                    THEN At(elapsed_s) ELSE @]
            IN  IF ssh_success
                THEN call' = [seen EXCEPT
                                !.monitoring_result =
                                    [pinged EXCEPT !.ssh_restored_time = At(elapsed_s),
                                                   !.reboot_successful = TRUE,
                                                   !.total_downtime = elapsed_s],
                                !.events = Append(@, "STEP_COMPLETE_COMPLETED"),
                                !.pc = "returned"]
                ELSE call' = [seen EXCEPT
                                !.monitoring_result = pinged,
                                !.ssh_attempts = IF ping_success THEN @ + 1 ELSE @,
                                !.now = @ + took + MONITOR_INTERVAL]
    /\ UNCHANGED run_vars

\* the loop condition fails: STEP_COMPLETE FAILED, raise RebootTimeoutError
MonitorTimeout ==
    /\ InMonitor
    /\ call.pc = "loop"
    /\ call.now >= call.timeout
    /\ call' = [call EXCEPT !.monitoring_result.total_downtime = call.timeout,
                            !.error_msg = format_reboot_timeout_error(call.monitoring_result),
                            !.events = Append(@, "STEP_COMPLETE_FAILED"),
                            !.raised = "RebootTimeoutError",
                            !.pc = "raised"]
    /\ UNCHANGED run_vars

\* C17: monitor_device_reboot raises RebootTimeoutError when no session
\* probe succeeded within the timeout (and returns only after one did); the
\* telemetry then has ping_restored_time None if no ping probe ever
\* succeeded, and ping_restored_time set with ssh_restored_time None if a
\* ping probe succeeded but no session probe did
C17_RebootTelemetry ==
    InMonitor =>
        LET r == call.monitoring_result
        IN  /\ call.pc = "returned" => call.ever_ssh
            /\ (call.pc = "loop" /\ call.now >= call.timeout) => ~call.ever_ssh
            /\ call.pc = "raised" =>
                  /\ call.raised = "RebootTimeoutError"
                  /\ ~call.ever_ssh
                  /\ call.now >= call.timeout
                  /\ ~r.reboot_successful
                  /\ ~call.ever_ping => r.ping_restored_time = None
                  /\ call.ever_ping => r.ping_restored_time # None
                  /\ r.ssh_restored_time = None

C17_Witness ==
    /\ InMonitor
    /\ call.pc = "raised"
    /\ call.ever_ping
    /\ call.monitoring_result.ping_restored_time = At(0)
    /\ call.monitoring_result.ssh_restored_time = None
    /\ call.ssh_attempts >= 2


\* C19: no two upgrade workflows are active for the same hostname at the
\* same time, whatever host list validate_command_arguments accepted (a
\* list may name a host more than once); a device's session is used by one
\* task only
C19_OneWorkflowPerHost ==
    \A i \in Entries : \A j \in Entries :
        (i # j /\ host_ips[i] = host_ips[j]) =>
            /\ ~(i \in Running /\ j \in Running)
            /\ ~(connected[i] /\ connected[j])

\* ------------------------------------------------- verify_final_version
MAX_VERIFY_ATTEMPTS == 3

VERIFY_WAIT == 10

\* what final_dev.facts["version"] may hold after the reboot
ReportedVersions == {"21.4R1.12", "Junos: 21.4R1.12", "20.4R3-S1.8"}

\* a mutant of version_equal: the versions are compared as parsed tuples
version_equal_parsed(final_version, target) ==
    parse_junos_version(Chars(final_version)) = parse_junos_version(Chars(target))

\* "if final_version == target_version": equality of the two strings
version_equal(final_version, target) == final_version = target

\* frame of verify_final_version(hostname, username, password, target, step);
\* opens / closes count the sessions managed_device_connection opened / closed
VerifyFrame(target) ==
    [fn |-> "verify_final_version", target |-> target, pc |-> "loop", attempt |-> 0,
     opens |-> 0, closes |-> 0, sleeps |-> <<>>,
     verification_result |-> [final_version |-> "None", version_match |-> FALSE,
                              verification_attempts |-> 0],
     raised |-> "None", matched_last |-> FALSE, last_outcome |-> "None"]

InVerify == call.fn = "verify_final_version"

\* exceptions of the session: Device.open() fails, reading the facts fails
SessionErrors == {"ConnectError", "RpcError"}

\* a mutant of wrapped_error: the exception caught is raised again as it is
unwrapped_error(error) == error

\* "except Exception as e: ... raise VersionMismatchError(f'... {str(e)}')"
wrapped_error(error) == "VersionMismatchError"

\* an attempt that does not return (error: the exception the try block
\* raised, VersionMismatchError for a mismatch on the last attempt): wait
\* and retry, or raise on the last one
VerifyRetryOrRaise(frame, error) ==
    IF frame.attempt = MAX_VERIFY_ATTEMPTS - 1
    THEN [frame EXCEPT !.raised = wrapped_error(error), !.pc = "raised"]
    ELSE [frame EXCEPT !.sleeps = Append(@, VERIFY_WAIT), !.attempt = @ + 1]

\* one pass of "for attempt in range(max_attempts)": the session cannot be
\* opened (connect_error), or it is opened and reading the facts raises
\* (facts_error), or the version is read and compared; an opened session is
\* closed when the with block is left
VerifyAttempt ==
    /\ InVerify
    /\ call.pc = "loop"
    /\ \E outcome \in {"connect_error", "facts_error"} \cup ReportedVersions :
         LET counted == [call EXCEPT
                           !.verification_result.verification_attempts = call.attempt + 1,
                           !.opens = @ + 1,
                           !.matched_last = FALSE]
         IN  IF outcome = "connect_error"
             THEN call' = VerifyRetryOrRaise([counted EXCEPT !.last_outcome = "ConnectError"],
                                             "ConnectError")
             ELSE IF outcome = "facts_error"
             THEN call' = VerifyRetryOrRaise([counted EXCEPT !.closes = @ + 1,
                                                             !.last_outcome = "RpcError"],
                                             "RpcError")
             ELSE LET read == [counted EXCEPT !.verification_result.final_version = outcome,
                                              !.closes = @ + 1,
                                              !.last_outcome = "version"]
                  IN  IF version_equal(outcome, call.target)
                      THEN call' = [read EXCEPT !.verification_result.version_match = TRUE,
                                                !.matched_last = TRUE,
                                                !.pc = "returned"]
                      ELSE call' = VerifyRetryOrRaise(read, "VersionMismatchError")
    /\ UNCHANGED run_vars

\* C18: verify_final_version makes at most 3 attempts, each with a session
\* of its own; it returns (version_match true) only on an attempt whose
\* reported version is the same string as target_version; an attempt 1 or 2
\* that does not match waits 10 s and retries, and attempt 3 not matching
\* raises VersionMismatchError
C18_VerifyAttempts ==
    InVerify =>
        LET r == call.verification_result
            waited == IF call.pc = "loop" THEN call.opens ELSE call.opens - 1
        IN  /\ call.opens <= 3
            /\ r.verification_attempts = call.opens
            /\ call.closes <= call.opens
            /\ Len(call.sleeps) = waited
            /\ \A k \in 1..Len(call.sleeps) : call.sleeps[k] = 10
            /\ r.version_match <=> call.pc = "returned"
            /\ call.pc = "returned" => r.final_version = call.target
            /\ call.pc = "raised" =>
                  /\ call.raised = "VersionMismatchError"
                  /\ call.opens = 3
                  /\ r.final_version # call.target
            /\ (call.pc = "loop" /\ call.opens > 0) => r.final_version # call.target

C18_Witness ==
    /\ InVerify
    /\ call.pc = "raised"
    /\ call.closes = 3
    /\ call.verification_result.final_version = "Junos: 21.4R1.12"
    /\ call.sleeps = <<10, 10>>


\* ------------------------------------------------ compare_junos_versions
\* version strings the function is called with: the three forms of the
\* docstring, a prefixed one, strings only the fallback parses, strings
\* nothing parses, and the empty string
VersionPool == {"20.4R3-S1.8", "21.4R1.12", "22.1R1.1", "Junos: 21.4R1.12",
                "21.4R1-S1.6-EVO", "21.4R1", "21.4.1", "21.4", "9.6R2.1.3.7.5",
                "9.6.2.1.3.7", "garbage", ""}

\* frame of compare_junos_versions(current, target), followed by the call
\* with the two arguments exchanged
CompareFrame(current, target) ==
    [fn |-> "compare_junos_versions", current |-> current, target |-> target,
     pc |-> "called", result |-> "None", exchanged |-> "None"]

InCompare == call.fn = "compare_junos_versions"

CompareReturns ==
    /\ InCompare
    /\ call.pc = "called"
    /\ call' = [call EXCEPT
                  !.result = compare_junos_versions(Chars(call.current), Chars(call.target)),
                  !.pc = "returned"]
    /\ UNCHANGED run_vars

CompareExchangedReturns ==
    /\ InCompare
    /\ call.pc = "returned"
    /\ call' = [call EXCEPT
                  !.exchanged = compare_junos_versions(Chars(call.target), Chars(call.current)),
                  !.pc = "both"]
    /\ UNCHANGED run_vars

\* a precedes b in the lexicographic order of tuples of equal length
LexLess(a, b) ==
    \E k \in 1..Len(a) : a[k] < b[k] /\ \A j \in 1..(k - 1) : a[j] = b[j]

\* C20: compare_junos_versions(current, target) is the lexicographic
\* comparison of the two parsed 5-tuples: MAINTAIN when they are equal (so
\* for current = target), UPGRADE when current < target, DOWNGRADE when
\* current > target; compare(a, b) = UPGRADE exactly when compare(b, a) =
\* DOWNGRADE
C20_CompareLexicographic ==
    (InCompare /\ call.pc # "called") =>
        LET c == parse_junos_version(Chars(call.current))
            g == parse_junos_version(Chars(call.target))
        IN  /\ Len(c) = 5 /\ Len(g) = 5
            /\ call.result = "MAINTAIN" <=> c = g
            /\ call.result = "UPGRADE" <=> LexLess(c, g)
            /\ call.result = "DOWNGRADE" <=> LexLess(g, c)
            /\ call.current = call.target => call.result = "MAINTAIN"
            /\ call.pc = "both" =>
                  /\ call.result = "UPGRADE" <=> call.exchanged = "DOWNGRADE"
                  /\ call.result = "DOWNGRADE" <=> call.exchanged = "UPGRADE"

\* two versions with equal major, minor and release that differ in the
\* service number only, compared in both orders
C20_Witness ==
    /\ InCompare
    /\ call.pc = "both"
    /\ call.current = "21.4R1.12"
    /\ call.target = "21.4R1-S1.6-EVO"
    /\ call.result = "UPGRADE"
    /\ call.exchanged = "DOWNGRADE"

\* ------------------------------------------- validate_image_availability
SMALL_IMAGE_BYTES == 52428800

\* the files of /var/tmp/ as the listing loop extracts them (name and size
\* of every line of "file list /var/tmp/ detail" with nine fields or more)
ImageListings ==
    {{},
     {[name |-> "j20.tgz", size |-> 62914560]},
     {[name |-> "j21.tgz", size |-> 0]},
     {[name |-> "j21.tgz", size |-> 1024]},
     {[name |-> "j21.tgz", size |-> 62914560]},
     {[name |-> "j21.tgz", size |-> 62914560], [name |-> "j20.tgz", size |-> 62914560]}}

\* what "file archive verify /var/tmp/<image>" may print
ArchiveOutputs == {"verified", "error: bad header", "Verification FAILED", "archive is Corrupt"}

\* the characters of the outputs of a call
ArchiveChars(o) ==
    CASE o = "verified" -> <<"v", "e", "r", "i", "f", "i", "e", "d">>
      [] o = "error: bad header" -> <<"e", "r", "r", "o", "r", ":", " ", "b", "a", "d", " ",
                                      "h", "e", "a", "d", "e", "r">>
      [] o = "Verification FAILED" -> <<"V", "e", "r", "i", "f", "i", "c", "a", "t", "i", "o",
                                        "n", " ", "F", "A", "I", "L", "E", "D">>
      [] o = "archive is Corrupt" -> <<"a", "r", "c", "h", "i", "v", "e", " ", "i", "s", " ",
                                       "C", "o", "r", "r", "u", "p", "t">>
      [] OTHER -> <<>>

\* str.lower() on the characters of an output
LowerOutput(c) ==
    CASE c = "A" -> "a" [] c = "C" -> "c" [] c = "D" -> "d" [] c = "E" -> "e"
      [] c = "F" -> "f" [] c = "I" -> "i" [] c = "L" -> "l" [] c = "V" -> "v"
      [] OTHER -> c

ArchiveKeywords == {<<"e", "r", "r", "o", "r">>, <<"f", "a", "i", "l", "e", "d">>,
                    <<"c", "o", "r", "r", "u", "p", "t">>}

\* "keyword in archive_test.lower()" for one of the keywords
reports_problem(archive_test) ==
    LET lowered == [k \in 1..Len(archive_test) |-> LowerOutput(archive_test[k])]
    IN  \E keyword \in ArchiveKeywords :
            \E p \in 1..Len(lowered) : HasPrefixAt(lowered, p, keyword)

\* a mutant of target_file: any file of the directory is taken for the image
any_listed_file(available_files, image_filename) == available_files

\* "next((f for f in available_files if f['name'] == image_filename), None)",
\* as the set of matches (empty for None)
target_file(available_files, image_filename) ==
    {f \in available_files : f.name = image_filename}

\* frame of validate_image_availability(dev, image_filename, hostname, step)
\* after its STEP_START; listing: the files seen (None before the listing);
\* archive: what the integrity command did
ValidateFrame(image_filename) ==
    [fn |-> "validate_image_availability", image_filename |-> image_filename,
     pc |-> "called", listing |-> None, archive |-> "None",
     validation_result |-> [image_found |-> FALSE, image_valid |-> FALSE, file_size |-> 0,
                            suggestions |-> {}],
     events |-> <<"STEP_START">>, raised |-> "None", error_msg |-> "None"]

InValidate == call.fn = "validate_image_availability"

\* dev.cli("file list /var/tmp/ detail") raises: except Exception
ValidateListingFails ==
    /\ InValidate
    /\ call.pc = "called"
    /\ call' = [call EXCEPT !.pc = "raised",
                            !.events = Append(@, "STEP_COMPLETE_FAILED"),
                            !.raised = "ImageValidationError",
                            !.error_msg = "system_error"]
    /\ UNCHANGED run_vars

\* the listing is read and searched: the image is missing, empty, or there
ValidateListing ==
    /\ InValidate
    /\ call.pc = "called"
    /\ \E available_files \in ImageListings :
         LET found == target_file(available_files, call.image_filename)
             listed == [call EXCEPT !.listing = At(available_files)]
         IN  IF found = {}
             THEN call' = [listed EXCEPT
                             !.validation_result.suggestions = {"upload_instructions"},
                             !.events = Append(@, "STEP_COMPLETE_FAILED"),
                             !.raised = "ImageValidationError",
                             !.error_msg = "not_found",
                             !.pc = "raised"]
             ELSE LET f == CHOOSE g \in found : TRUE
                      seen == [listed EXCEPT !.validation_result.image_found = TRUE,
                                             !.validation_result.file_size = f.size]
                  IN  IF f.size = 0
                      THEN call' = [seen EXCEPT !.raised = "ImageValidationError",
                                                !.error_msg = "empty",
                                                !.pc = "raised"]
                      ELSE call' = [seen EXCEPT
                                      !.validation_result.suggestions =
                                          IF f.size < SMALL_IMAGE_BYTES
                                          THEN {"unusually_small"} ELSE {},
                                      !.pc = "verify"]
    /\ UNCHANGED run_vars

\* the archive integrity test and the return: the command raises, or it
\* prints something; the ImageValidationError raised for a reported problem
\* is raised inside the inner try and caught by its "except Exception"
ValidateArchive ==
    /\ InValidate
    /\ call.pc = "verify"
    /\ \E outcome \in ArchiveOutputs \cup {"cli_error"} :
         call' = [call EXCEPT
                    !.archive = IF outcome = "cli_error" THEN "raised"
                                ELSE IF reports_problem(ArchiveChars(outcome)) THEN "problem"
                                ELSE "clean",
                    !.validation_result.image_valid = TRUE,
                    !.events = Append(@, "STEP_COMPLETE_COMPLETED"),
                    !.pc = "returned"]
    /\ UNCHANGED run_vars

ListedImage(name) == {f \in call.listing[1] : f.name = name}

\* C32: for an image found in the staging directory, validate_image_availability
\* raises ImageValidationError when its size is 0 bytes and returns success
\* with image_valid true when the archive integrity command raises; it never
\* returns success for an image that is not in the listing: absence raises
\* ImageValidationError with suggestions
C32_ImageChecks ==
    (InValidate /\ call.listing # None) =>
        LET present == ListedImage(call.image_filename)
            r == call.validation_result
        IN  /\ (\E f \in present : f.size = 0) =>
                  /\ call.pc = "raised"
                  /\ call.raised = "ImageValidationError"
                  /\ ~r.image_valid
            /\ call.archive = "raised" =>
                  /\ call.pc = "returned"
                  /\ r.image_valid
                  /\ r.image_found
            /\ present = {} =>
                  /\ call.pc = "raised"
                  /\ call.raised = "ImageValidationError"
                  /\ r.suggestions # {}
                  /\ ~r.image_found
                  /\ ~r.image_valid
            /\ call.pc = "returned" => \E f \in present : f.size > 0

\* the image is listed with a size above 0 and the integrity command raises
C32_Witness ==
    /\ InValidate
    /\ call.pc = "returned"
    /\ call.archive = "raised"
    /\ call.validation_result.image_valid
    /\ call.validation_result.file_size = 1024

\* C33: when the archive integrity command runs and its output reports
\* 'error', 'failed' or 'corrupt', validate_image_availability raises
\* ImageValidationError; a corrupt image is never returned as image_valid
C33_CorruptRejected ==
    (InValidate /\ call.archive = "problem") =>
        /\ call.pc = "raised"
        /\ call.raised = "ImageValidationError"
        /\ ~call.validation_result.image_valid

\* ------------------------------------------- functions called on their own
\* the module is imported and one of its functions is called with its
\* arguments; no command line is run
InitialFrames ==
    {RetryFrame(m) : m \in 1..MaxRetries}
      \cup {ManagedFrame}
      \cup {MonitorFrame(t) : t \in MonitorTimeouts}
      \cup {VerifyFrame(target_version)}
      \cup {ValidateFrame("j21.tgz")}
      \cup {CompareFrame(c, g) : c \in VersionPool, g \in VersionPool}

InitCalls ==
    /\ InitRun(<<>>, PromptDurations)
    /\ allow_downgrade = FALSE
    /\ args = GoodArgs(0, FALSE, FALSE)
    /\ mpc = "imported"
    /\ exit_code = "None"
    /\ call \in InitialFrames

NextCalls ==
    \/ RetryOpenReturns
    \/ RetryOpenRaises
    \/ ManagedOpenReturns
    \/ ManagedOpenRaises
    \/ ManagedLeaveBlock
    \/ MonitorInitialWait
    \/ MonitorIteration
    \/ MonitorTimeout
    \/ VerifyAttempt
    \/ ValidateListingFails
    \/ ValidateListing
    \/ ValidateArchive
    \/ CompareReturns
    \/ CompareExchangedReturns

SpecCalls == InitCalls /\ [][NextCalls]_vars


\* ------------------------------------------------------ step numbering
StepEventTypes == {"STEP_START", "STEP_COMPLETE"}

\* C21: every STEP_START and STEP_COMPLETE event emitted for the device at
\* list entry i carries a step number of that device's own range
\* start_step .. start_step + STEPS_PER_DEVICE - 1, on the success, skip and
\* failure paths; so the step numbers of two devices never collide and none
\* exceeds total_steps = hostCount * STEPS_PER_DEVICE
C21_StepsInOwnRange ==
    \A i \in Entries : \A k \in 1..Len(events[i]) :
        events[i][k].event_type \in StepEventTypes =>
            /\ events[i][k].step >= start_step(i)
            /\ events[i][k].step <= start_step(i) + STEPS_PER_DEVICE - 1
            /\ events[i][k].step <= N * STEPS_PER_DEVICE
            /\ \A j \in Entries \ {i} : \A m \in 1..Len(events[j]) :
                  events[j][m].event_type \in StepEventTypes =>
                      events[j][m].step # events[i][k].step


\* ---------------------------------------------------- operation progress
IsOperationProgress(ev) == ev.event_type = "OPERATION_PROGRESS"

\* the OPERATION_PROGRESS events emitted so far, in order
ProgressEvents == SelectSeq(op_events, IsOperationProgress)

\* C22: the coordinator emits one OPERATION_PROGRESS event per device
\* completion; completed_devices is 1 in the first, grows by exactly 1 with
\* each later one, never exceeds total_devices, and equals total_devices
\* (completion_percentage 100) in the last one before OPERATION_COMPLETE
C22_ProgressCounts ==
    /\ Len(ProgressEvents) = Cardinality(Yielded)
    /\ \A k \in 1..Len(ProgressEvents) :
          /\ ProgressEvents[k].completed_devices = k
          /\ ProgressEvents[k].completed_devices <= ProgressEvents[k].total_devices
    /\ cpc = "complete" =>
          /\ Len(ProgressEvents) >= 1
          /\ ProgressEvents[Len(ProgressEvents)].completed_devices
                = ProgressEvents[Len(ProgressEvents)].total_devices
          /\ ProgressEvents[Len(ProgressEvents)].completion_percentage = 100


\* ------------------------------------------------- failed task submission
\* C23: when submitting the task of one device fails, that device is in the
\* aggregate with phase FAILED and success false, and the run goes on: the
\* hosts after it are still submitted (or fail to be submitted themselves)
\* and every submitted workflow has reached a terminal phase when the run
\* completes
C23_SubmitFailureIsolated ==
    /\ \A i \in Entries : pc[i] = "rejected" =>
          /\ i < next_submit
          /\ \E k \in 1..Len(final_statuses) :
                /\ final_statuses[k].idx = i
                /\ final_statuses[k].hostname = host_ips[i]
                /\ final_statuses[k].phase = "FAILED"
                /\ ~final_statuses[k].success
    /\ (cpc \in {"collect", "complete"} /\ \E i \in Entries : pc[i] = "rejected") =>
          \A j \in Entries : pc[j] # "unsubmitted"
    /\ (cpc = "complete" /\ \E i \in Entries : pc[i] = "rejected") =>
          \A j \in Entries :
              pc[j] # "rejected" =>
                  /\ pc[j] = "done"
                  /\ status[j].phase \in TerminalPhases
                  /\ \E k \in 1..Len(final_statuses) : final_statuses[k] = status[j]

\* the first of three submissions failed; the two later hosts were
\* submitted and their workflows ran to the end
C23_Witness ==
    /\ cpc = "complete"
    /\ N = 3
    /\ pc[1] = "rejected"
    /\ pc[2] = "done"
    /\ pc[3] = "done"
    /\ status[2].start_time


\* ------------------------------------------------------- event ordering
\* C24: within the workflow of one device, whatever the other devices do,
\* the step numbers of its successive STEP_START events strictly increase,
\* no STEP_COMPLETE of a step precedes that step's STEP_START, and a
\* STEP_START of a later step comes only after the STEP_COMPLETE of the
\* step before it
C24_StepOrder ==
    \A i \in Entries : \A k \in 1..Len(events[i]) :
        events[i][k].event_type = "STEP_START" =>
            /\ \A m \in 1..(k - 1) :
                  /\ events[i][m].event_type = "STEP_START" =>
                        events[i][m].step < events[i][k].step
                  /\ events[i][m].event_type = "STEP_COMPLETE" =>
                        events[i][m].step < events[i][k].step
            /\ events[i][k].step > start_step(i) =>
                  \E m \in 1..(k - 1) :
                      /\ events[i][m].event_type = "STEP_COMPLETE"
                      /\ events[i][m].step = events[i][k].step - 1

\* two workflows under way at once, the first in its third step
C24_Witness ==
    /\ N >= 2
    /\ pc[1] = "analyze"
    /\ pc[2] \in {"facts", "validate"}
    /\ \E k \in 1..Len(events[1]) :
          events[1][k].event_type = "STEP_START" /\ events[1][k].step = start_step(1) + 2
    /\ Len(events[2]) >= 1


\* ------------------------------------------- reboot monitoring, in detail
\* C25: monitor_device_reboot makes no ping or session probe before the
\* initial sleep of 60 s is over; in every poll the session probe is made
\* only if the ping probe of that poll succeeded; the first successful
\* session probe ends monitoring with reboot_successful true and
\* total_downtime equal to the elapsed time of that poll
C25_ProbeDiscipline ==
    InMonitor =>
        LET r == call.monitoring_result
        IN  /\ call.pc = "wait" => (call.ping_probes = 0 /\ call.ssh_probes = 0)
            /\ call.ping_probes > 0 => call.waited = 60
            /\ call.ssh_probes <= call.ping_probes
            /\ call.last_poll.ssh_probed => call.last_poll.ping
            /\ call.ever_ssh <=> call.pc = "returned"
            /\ call.pc = "returned" =>
                  /\ call.last_poll.ssh
                  /\ r.reboot_successful
                  /\ r.total_downtime = call.last_poll.elapsed
                  /\ r.ssh_restored_time = At(call.last_poll.elapsed)
            /\ call.pc # "returned" => ~r.reboot_successful

\* the session answers in the third poll, 30 s after the wait
C25_Witness ==
    /\ InMonitor
    /\ call.pc = "returned"
    /\ call.waited = 60
    /\ call.ping_probes = 3
    /\ call.ssh_probes = 2
    /\ call.monitoring_result.total_downtime = 30

\* C26: ping_restored_time is the elapsed time of the first poll at which
\* the device changed from unreachable to reachable, and a later poll never
\* overwrites it, also when reachability is lost and regained
C26_PingRestoredOnce ==
    InMonitor =>
        /\ call.monitoring_result.ping_restored_time = call.first_ping
        /\ call.ever_ping <=> call.monitoring_result.ping_restored_time # None

\* C27: the RebootTimeoutError message says that ping connectivity was never
\* restored exactly when no ping probe succeeded, and otherwise that ping
\* was restored but SSH never was, whichever poll ping first succeeded at
\* (the first poll, at 0 s, included)
C27_TimeoutMessage ==
    (InMonitor /\ call.pc = "raised") =>
        /\ "ping_never_restored" \in call.error_msg <=> ~call.ever_ping
        /\ call.ever_ping => call.error_msg = {"ping_restored", "ssh_never_restored"}
        /\ "ssh_never_restored" \in call.error_msg


\* ------------------------------------- verify_final_version: session errors
\* C28: in verify_final_version a session error (the session cannot be
\* opened, or the version cannot be read) on attempt 1 or 2 is handled like
\* a mismatch, with a wait of 10 s and another attempt; on attempt 3 it is
\* raised to the caller as VersionMismatchError, which is the error_type
\* handle_upgrade_error then records for the device
C28_SessionErrorHandling ==
    (InVerify /\ call.last_outcome \in {"ConnectError", "RpcError"}) =>
        /\ call.opens \in {1, 2} =>
              /\ call.pc = "loop"
              /\ call.attempt = call.opens
              /\ Len(call.sleeps) = call.opens
              /\ call.sleeps[call.opens] = 10
              /\ call.raised = "None"
        /\ call.opens = 3 =>
              /\ call.pc = "raised"
              /\ call.raised = "VersionMismatchError"
              /\ Len(call.sleeps) = 2
              /\ handle_upgrade_error_status(DeviceStatus(1, "r1"), call.raised).error_type
                    = "VersionMismatchError"
        /\ ~call.verification_result.version_match

\* the session cannot be opened on any of the three attempts
C28_Witness ==
    /\ InVerify
    /\ call.pc = "raised"
    /\ call.last_outcome = "ConnectError"
    /\ call.opens = 3
    /\ call.closes = 0
    /\ call.verification_result.final_version = "None"


\* --------------------------------------------------- unparseable versions
Unparseable(v) == parse_junos_version(Chars(v)) = ZeroVersion

\* C29: parse_junos_version returns (0,0,0,0,0) for a version it cannot
\* parse, so for a device that reports such a version against a parseable
\* target the comparison gives UPGRADE (not UNKNOWN) and the workflow goes
\* on to the installation step
C29_UnparseableProceeds ==
    \A i \in Entries :
        (Healthy(i) /\ status[i].initial_version # "None"
                    /\ Unparseable(status[i].initial_version))
        => /\ status[i].version_action = "UPGRADE"
           /\ HasEvent(i, start_step(i) + 2, "STEP_COMPLETE", "COMPLETED")
           /\ HasEvent(i, start_step(i) + 3, "STEP_START", "None")


\* ------------------------------------------------------ installation phase
\* device operations of phase 4, in the order of the code:
\* perform_preinstallation_checks, SW.validate, SW.install, SW.reboot
InstallationCalls == <<"preinstallation_checks", "validate_package", "install", "reboot">>

Started == {i \in Entries : pc[i] \notin {"unsubmitted", "queued", "rejected"}}

\* C34: at most max_workers (5) upgrade_device workflows execute at any
\* moment, whatever the number of hosts, and a workflow that starts when
\* max_workers workflows have started before it starts only after one of
\* them has returned
C34_WorkerCap ==
    /\ [](Cardinality(Running) <= DEFAULT_MAX_WORKERS)
    /\ [][\A i \in Entries :
            (/\ pc[i] = "queued"
             /\ pc'[i] # "queued"
             /\ Cardinality(Started) >= DEFAULT_MAX_WORKERS)
            => \E j \in Started : pc[j] = "done"]_vars

\* six tasks were accepted, the sixth runs beside four others and one
\* workflow has returned, while five occupy the threads
C34_Witness ==
    /\ N > DEFAULT_MAX_WORKERS
    /\ Cardinality(Started) > DEFAULT_MAX_WORKERS
    /\ Cardinality(Running) = DEFAULT_MAX_WORKERS
    /\ N \in Running

\* what the worker threads write: the state of the upgrade_device tasks
workflow_vars == <<status, current_step, attempt, connected, events, calls, elapsed, fault>>

\* C35: insertions into final_statuses are never concurrent: every change
\* of the list is one append made by the coordinator, in the submission
\* loop or in the collection loop, in a step in which no workflow moves;
\* steps of the workflows leave the list alone; every DeviceStatus is
\* appended once (never twice, and once the operation is complete none is
\* missing)
C35_SingleWriter ==
    /\ [](\A i \in Entries : Cardinality(Records(i)) <= 1)
    /\ [](cpc = "complete" => \A i \in Entries : Records(i) # {})
    /\ [][final_statuses' # final_statuses =>
            /\ cpc \in {"submit", "collect"}
            /\ Len(final_statuses') = Len(final_statuses) + 1
            /\ SubSeq(final_statuses', 1, Len(final_statuses)) = final_statuses
            /\ UNCHANGED workflow_vars]_vars

\* a record of a failed submission and a collected record are in the list
\* while another workflow is still running on a worker thread
C35_Witness ==
    /\ Running # {}
    /\ \E k \in 1..Len(final_statuses) : final_statuses[k].error_type = "TaskSubmissionError"
    /\ \E i \in Entries : pc[i] = "done" /\ Records(i) # {}

\* ------------------------------------------------------- step completion
\* positions in the events of entry i that are the STEP_COMPLETE of step s
Completions(i, s) ==
    {k \in 1..Len(events[i]) :
        events[i][k].event_type = "STEP_COMPLETE" /\ events[i][k].step = s}

\* C36: when upgrade_device has returned, each of the device's
\* STEPS_PER_DEVICE steps has received exactly one STEP_COMPLETE event, on
\* every path: no step has two and no step has none
C36_OneCompletionPerStep ==
    \A i \in Entries :
        pc[i] = "done" =>
            \A s \in start_step(i)..(start_step(i) + STEPS_PER_DEVICE - 1) :
                Cardinality(Completions(i, s)) = 1

IsOperationComplete(ev) == ev.event_type = "OPERATION_COMPLETE"

\* the OPERATION_COMPLETE events emitted so far, in order
CompleteEvents == SelectSeq(op_events, IsOperationComplete)

\* C39: in one run of the script OPERATION_START is emitted before any
\* device's STEP event; OPERATION_COMPLETE is never emitted twice, and when
\* the script has exited (a dry run, which performs no operation, is left
\* aside) it has been emitted exactly once, as the last event, after every
\* workflow has returned and after the last OPERATION_PROGRESS
C39_OperationEvents ==
    /\ (\E i \in Entries : events[i] # <<>>) =>
          (op_events # <<>> /\ op_events[1].event_type = "OPERATION_START")
    /\ Len(CompleteEvents) <= 1
    /\ (mpc = "exited" /\ ~args.dry_run) =>
          /\ Len(CompleteEvents) = 1
          /\ IsOperationComplete(LastOpEvent)
          /\ \A i \in Entries : pc[i] \in {"unsubmitted", "rejected", "done"}

\* ============================================================ termination
\* runs and direct calls in which every thread that can take a step
\* eventually takes one: every device call returns or raises, the pool
\* runs every queued task, the coordinator and the entry point go on
MaxLiveHosts == 2

InitLive ==
    \/ \E n \in 1..MaxLiveHosts, allow \in BOOLEAN :
          InitMain(GoodArgs(n, allow, FALSE), PromptDurations)
    \/ \E a \in VariedArgs : InitMain(a, PromptDurations)
    \/ InitCalls

\* the entry point and the coordinator thread
CoordinatorStep ==
    \/ StartScript
    \/ FinishScript
    \/ SummaryFails
    \/ OperationStart
    \/ \E i \in Entries : SubmitTask(i)
    \/ \E i \in Entries : SubmitFails(i)
    \/ \E i \in Entries : CollectResult(i)
    \/ OperationComplete

\* the task of list entry i on its worker thread
WorkerStep(i) ==
    /\ i \in Entries
    /\ \/ StartWorkflow(i)
       \/ ConnectionOpens(i)
       \/ ConnectionFails(i)
       \/ GatherFacts(i)
       \/ ValidateImage(i)
       \/ AnalyzeVersion(i)
       \/ CompleteSkipped(i)
       \/ CompleteAnalysis(i)

\* the functions with a loop, called on their own
LoopCallStep ==
    \/ RetryOpenReturns
    \/ RetryOpenRaises
    \/ MonitorInitialWait
    \/ MonitorIteration
    \/ MonitorTimeout
    \/ VerifyAttempt

NextLive ==
    \/ CoordinatorStep
    \/ \E i \in 1..MaxLiveHosts : WorkerStep(i)
    \/ NextCalls

SpecLive ==
    /\ InitLive
    /\ [][NextLive]_vars
    /\ WF_vars(CoordinatorStep)
    /\ \A i \in 1..MaxLiveHosts : WF_vars(WorkerStep(i))
    /\ WF_vars(LoopCallStep)

\* the loops of the functions called on their own
InLoopCall == call.fn \in {"establish_connection_with_retry", "monitor_device_reboot",
                           "verify_final_version"}

\* the polls monitor_device_reboot can make before time.time() - start
\* reaches its timeout, each iteration sleeping MONITOR_INTERVAL
MaxPolls(timeout) == (timeout + MONITOR_INTERVAL - 1) \div MONITOR_INTERVAL

\* C40: liveness: when every device call returns or raises, every submitted
\* upgrade_device workflow eventually reaches a terminal phase and the
\* coordinator eventually emits OPERATION_COMPLETE; the connection retry,
\* reboot polling and verification loops each end, returning or raising,
\* after a bounded number of iterations
C40_Termination ==
    /\ \A i \in 1..MaxLiveHosts :
          (i \in Entries /\ pc[i] = "queued")
              ~> (i \in Entries /\ pc[i] = "done" /\ status[i].phase \in TerminalPhases)
    /\ (mpc = "execute") ~> (cpc = "complete" /\ Len(CompleteEvents) >= 1)
    /\ [](\A i \in Entries : attempt[i] < DEFAULT_RETRY_ATTEMPTS)
    /\ InLoopCall ~> (InLoopCall /\ call.pc \in {"returned", "raised"})
    /\ [](InRetry => call.opens <= call.max_retries)
    /\ [](InMonitor => call.ping_probes <= MaxPolls(call.timeout))
    /\ [](InVerify => call.opens <= MAX_VERIFY_ATTEMPTS)

\* two workflows have reached a terminal phase, one of them after using up
\* its connection attempts, and OPERATION_COMPLETE has been emitted
C40_Witness ==
    /\ N = 2
    /\ cpc = "complete"
    /\ Len(CompleteEvents) = 1
    /\ \A i \in Entries : pc[i] = "done" /\ status[i].phase \in TerminalPhases
    /\ \E i \in Entries : status[i].error_type = "ConnectionError"
    /\ \E i \in Entries : status[i].error_type = "TypeError"

====
